---- MODULE Spec2Model ----
(***************************************************************************)
(* ClinQure Data Consolidation Tool (src/app.py): a model of the header    *)
(* normalisation, the fuzzy clustering of create_draft_mapping_excel, the  *)
(* export/import of the mapping sheet, consolidate_files, and the          *)
(* top-level script that calls them.                                       *)
(*                                                                         *)
(* Strings are sequences of character codes (ord), so that strip, lower,   *)
(* replace, split, join and difflib's similarity ratio are computed the    *)
(* way Python computes them.                                               *)
(***************************************************************************)
EXTENDS Integers, Sequences, FiniteSets, TLC

\* ---------------------------------------------------------------- bounds
\* Longest batch of uploaded files in a run of the whole script.
MaxScriptFiles == 2
\* Longest batch handed to create_draft_mapping_excel on its own.
MaxDraftFiles == 2
\* Longest batch handed to consolidate_files on its own.
MaxConsolFiles == 3
\* Largest header universe whose every enumeration order is explored; a larger
\* universe is enumerated in ascending and in descending order only.
MaxPermute == 3

\* ------------------------------------------------------------ characters
SPACE == 32
UNDERSCORE == 95
COMMA == 44

\* The ASCII characters str.strip() removes.
Whitespace == {9, 10, 11, 12, 13, 28, 29, 30, 31, 32}

\* The strings of the model, written out as character codes.
STR_ab == <<97, 98>>
STR_abc == <<97, 98, 99>>
STR_Abc == <<65, 98, 99>>
STR_bc == <<98, 99>>
STR_Age == <<65, 103, 101>>
STR_age == <<97, 103, 101>>
STR_age_sp == <<97, 103, 101, 32>>
STR_ages == <<97, 103, 101, 115>>
STR_P_ID == <<80, 32, 73, 68>>
STR_p_id == <<112, 95, 105, 100>>
STR_pid == <<112, 105, 100>>
STR_a_comma_b == <<97, 44, 98>>
STR_blank == <<32>>
STR_nan == <<110, 97, 110>>
STR_empty == <<>>

\* --------------------------------------------------------------- strings
\* str.strip(): drop leading and trailing whitespace.
RECURSIVE LStrip(_)
LStrip(s) ==
    IF s # <<>> /\ Head(s) \in Whitespace THEN LStrip(Tail(s)) ELSE s

RECURSIVE RStrip(_)
RStrip(s) ==
    IF s # <<>> /\ s[Len(s)] \in Whitespace
    THEN RStrip(SubSeq(s, 1, Len(s) - 1))
    ELSE s

Strip(s) == RStrip(LStrip(s))

\* str.lower() on ASCII.
Lower(s) == [i \in 1..Len(s) |-> IF s[i] >= 65 /\ s[i] <= 90 THEN s[i] + 32 ELSE s[i]]

\* str.replace(" ", "_").
ReplaceSpace(s) == [i \in 1..Len(s) |-> IF s[i] = SPACE THEN UNDERSCORE ELSE s[i]]

\* h.strip().lower().replace(" ", "_")
Normalize(s) == ReplaceSpace(Lower(Strip(s)))

\* sep.join(parts) with sep = ", ".
RECURSIVE Join(_)
Join(parts) ==
    IF parts = <<>> THEN <<>>
    ELSE IF Len(parts) = 1 THEN parts[1]
    ELSE parts[1] \o <<COMMA, SPACE>> \o Join(Tail(parts))

\* s.split(","): always at least one piece.
RECURSIVE Split(_)
Split(s) ==
    IF \A i \in 1..Len(s) : s[i] # COMMA THEN <<s>>
    ELSE LET i == CHOOSE k \in 1..Len(s) :
                     s[k] = COMMA /\ \A m \in 1..(k - 1) : s[m] # COMMA
         IN  <<SubSeq(s, 1, i - 1)>> \o Split(SubSeq(s, i + 1, Len(s)))

\* Python's < on str: by character code, a proper prefix first.
RECURSIVE StrLess(_, _)
StrLess(a, b) ==
    IF b = <<>> THEN FALSE
    ELSE IF a = <<>> THEN TRUE
    ELSE IF Head(a) # Head(b) THEN Head(a) < Head(b)
    ELSE StrLess(Tail(a), Tail(b))

\* [f(x) for x in seq if p(x)] helpers.
RECURSIVE SeqFilterNonBlank(_)
SeqFilterNonBlank(parts) ==
    IF parts = <<>> THEN <<>>
    ELSE IF Strip(Head(parts)) # <<>>
         THEN <<Head(parts)>> \o SeqFilterNonBlank(Tail(parts))
         ELSE SeqFilterNonBlank(Tail(parts))

Range(seq) == {seq[i] : i \in 1..Len(seq)}

\* --------------------------------------------------------------- difflib
\* Length of the common run of a[i..ahi] and b[j..bhi] (1-based, inclusive).
RECURSIVE CommonRun(_, _, _, _, _, _)
CommonRun(a, b, i, j, ahi, bhi) ==
    IF i > ahi \/ j > bhi \/ a[i] # b[j] THEN 0
    ELSE 1 + CommonRun(a, b, i + 1, j + 1, ahi, bhi)

\* SequenceMatcher.find_longest_match without junk: the longest block, of those
\* the one starting earliest in a, of those the one starting earliest in b.
FindLongestMatch(a, b, alo, ahi, blo, bhi) ==
    LET runs == {<<i, j, CommonRun(a, b, i, j, ahi, bhi)>> : i \in alo..ahi, j \in blo..bhi}
    IN  IF runs = {} THEN <<alo, blo, 0>>
        ELSE CHOOSE p \in runs :
                 \A q \in runs :
                     \/ p[3] > q[3]
                     \/ p[3] = q[3] /\ p[1] < q[1]
                     \/ p[3] = q[3] /\ p[1] = q[1] /\ p[2] <= q[2]

\* Sum of the sizes of get_matching_blocks(): the longest block, then the same
\* to its left and to its right.
RECURSIVE MatchCount(_, _, _, _, _, _)
MatchCount(a, b, alo, ahi, blo, bhi) ==
    LET m == FindLongestMatch(a, b, alo, ahi, blo, bhi)
    IN  IF m[3] = 0 THEN 0
        ELSE m[3]
             + MatchCount(a, b, alo, m[1] - 1, blo, m[2] - 1)
             + MatchCount(a, b, m[1] + m[3], ahi, m[2] + m[3], bhi)

\* ratio() = 2.0 * matches / (len(a) + len(b)), 1.0 when both are empty; kept as
\* the pair <<numerator, denominator>>.
Ratio(a, b) ==
    IF Len(a) + Len(b) = 0 THEN <<1, 1>>
    ELSE <<2 * MatchCount(a, b, 1, Len(a), 1, Len(b)), Len(a) + Len(b)>>

\* real_quick_ratio(): an upper bound from the lengths alone.
RealQuickRatio(a, b) ==
    IF Len(a) + Len(b) = 0 THEN <<1, 1>>
    ELSE <<2 * (IF Len(a) < Len(b) THEN Len(a) ELSE Len(b)), Len(a) + Len(b)>>

\* Number of characters, counted with multiplicity, that a and b share.
CountOf(s, c) == Cardinality({i \in 1..Len(s) : s[i] = c})

RECURSIVE SharedChars(_, _, _)
SharedChars(a, b, chars) ==
    IF chars = {} THEN 0
    ELSE LET c == CHOOSE x \in chars : TRUE
             na == CountOf(a, c)
             nb == CountOf(b, c)
         IN  (IF na < nb THEN na ELSE nb) + SharedChars(a, b, chars \ {c})

\* quick_ratio(): an upper bound from the multiset of characters.
QuickRatio(a, b) ==
    IF Len(a) + Len(b) = 0 THEN <<1, 1>>
    ELSE <<2 * SharedChars(a, b, Range(a) \cup Range(b)), Len(a) + Len(b)>>

\* The comparison of AtLeast turned around: r <= cutoff.
AtMostInstead(r, cutoff) == 100 * r[1] <= cutoff * r[2]

\* r >= cutoff, the cutoff in hundredths.
AtLeast(r, cutoff) == 100 * r[1] >= cutoff * r[2]

\* -------------------------------------------------- difflib.get_close_matches
\* The possibilities whose three ratios all reach the cutoff, best first:
\* heapq.nlargest(n, (score, x)) orders by score, then by the string itself.
\* (score, x) > (score', y) on tuples: the higher ratio, then the larger string.
\* A scored candidate is <<ratio, x>>.
Better(p, q) ==
    \/ p[1][1] * q[1][2] > q[1][1] * p[1][2]
    \/ /\ p[1][1] * q[1][2] = q[1][1] * p[1][2]
       /\ StrLess(q[2], p[2])

\* heapq.nlargest: the scored candidates, largest first.
RECURSIVE NLargest(_)
NLargest(scored) ==
    IF scored = {} THEN <<>>
    ELSE LET m == CHOOSE p \in scored : \A q \in scored \ {p} : Better(p, q)
         IN  <<m[2]>> \o NLargest(scored \ {m})

\* get_close_matches keeping the n worst of the matches (heapq.nsmallest).
GetCloseMatchesNSmallest(word, possibilities, n, cutoff) ==
    LET cand == {x \in Range(possibilities) :
                    /\ AtLeast(RealQuickRatio(x, word), cutoff)
                    /\ AtLeast(QuickRatio(x, word), cutoff)}
        scored == {p \in {<<Ratio(x, word), x>> : x \in cand} : AtLeast(p[1], cutoff)}
        all == NLargest(scored)
    IN  SubSeq(all, IF n < Len(all) THEN Len(all) - n + 1 ELSE 1, Len(all))

GetCloseMatches(word, possibilities, n, cutoff) ==
    LET cand == {x \in Range(possibilities) :
                    /\ AtLeast(RealQuickRatio(x, word), cutoff)
                    /\ AtLeast(QuickRatio(x, word), cutoff)}
        scored == {p \in {<<Ratio(x, word), x>> : x \in cand} : AtLeast(p[1], cutoff)}
        all == NLargest(scored)
    IN  SubSeq(all, 1, IF n < Len(all) THEN n ELSE Len(all))

\* ------------------------------------------------------------------ dict
\* A Python dict, in insertion order: a sequence of [k, v] with distinct keys.
DictKeys(d) == {d[i].k : i \in 1..Len(d)}

DictHas(d, key) == key \in DictKeys(d)

DictGet(d, key) == d[CHOOSE i \in 1..Len(d) : d[i].k = key].v

\* d[key] = value: an existing key keeps its place and takes the new value.
DictSet(d, key, value) ==
    IF DictHas(d, key)
    THEN [i \in 1..Len(d) |-> IF d[i].k = key THEN [k |-> key, v |-> value] ELSE d[i]]
    ELSE Append(d, [k |-> key, v |-> value])

\* d.get(key, default)
DictGetOr(d, key, default) == IF DictHas(d, key) THEN DictGet(d, key) ELSE default

\* ------------------------------------------------------------ permutations
RECURSIVE SortAsc(_)
SortAsc(S) ==
    IF S = {} THEN <<>>
    ELSE LET m == CHOOSE x \in S : \A y \in S \ {x} : StrLess(x, y)
         IN  <<m>> \o SortAsc(S \ {m})

Reverse(seq) == [i \in 1..Len(seq) |-> seq[Len(seq) + 1 - i]]

\* list(set(...)): the order of a set's elements is whatever the hash table
\* gives, so every order is possible.
SetOrders(S) ==
    IF Cardinality(S) <= MaxPermute
    THEN {p \in [1..Cardinality(S) -> S] : Range(p) = S}
    ELSE {SortAsc(S), Reverse(SortAsc(S))}

\* ----------------------------------------------------------------- files
\* An uploaded file: its name, its size in bytes, what its bytes hold ("csv": a
\* delimited table, "xlsx": a workbook, "blank": only line breaks, "empty":
\* nothing), whether its header row holds strings, and the table it encodes.
EXT_csv == <<46, 99, 115, 118>>
EXT_xlsx == <<46, 120, 108, 115, 120>>

\* str.endswith
EndsWith(s, suffix) ==
    /\ Len(s) >= Len(suffix)
    /\ SubSeq(s, Len(s) - Len(suffix) + 1, Len(s)) = suffix

\* pd.read_csv(file) from the stream's current position: at the end of the
\* stream, or in a file without a header line, there are no columns to parse.
ReadCsv(file, eof) ==
    IF eof \/ file.content \in {"empty", "blank"}
    THEN [ok |-> FALSE, err |-> "EmptyDataError"]
    ELSE IF file.content = "csv"
    THEN [ok |-> TRUE, err |-> "none"]
    ELSE [ok |-> FALSE, err |-> "Exception"]

\* pd.read_excel(file): the workbook is opened as a zip archive, whatever the
\* stream's position.
ReadExcel(file, eof) ==
    IF file.content = "xlsx"
    THEN [ok |-> TRUE, err |-> "none"]
    ELSE [ok |-> FALSE, err |-> "Exception"]

\* pd.read_csv(file) if file.name.endswith(".csv") else pd.read_excel(file)
ReadTable(file, eof) ==
    IF EndsWith(file.name, EXT_csv) THEN ReadCsv(file, eof) ELSE ReadExcel(file, eof)

\* ---------------------------------------------------------------- tables
NaN == "NaN"

HasDuplicates(seq) == \E i, j \in 1..Len(seq) : i < j /\ seq[i] = seq[j]

\* The union of the frames' columns, in order of first appearance.
RECURSIVE AddColumns(_, _)
AddColumns(acc, cols) ==
    IF cols = <<>> THEN acc
    ELSE AddColumns(IF Head(cols) \in Range(acc) THEN acc ELSE Append(acc, Head(cols)),
                    Tail(cols))

RECURSIVE UnionColumns(_, _)
UnionColumns(dfs, acc) ==
    IF dfs = <<>> THEN acc
    ELSE UnionColumns(Tail(dfs), AddColumns(acc, Head(dfs).columns))

\* pd.concat reindexes every frame whose columns differ from the union, and
\* reindexing a frame with a repeated column name raises InvalidIndexError.
ConcatRaises(dfs) ==
    \E i, j \in 1..Len(dfs) :
        HasDuplicates(dfs[i].columns) /\ dfs[j].columns # dfs[i].columns

\* pd.concat(dfs, ignore_index=True): rows in frame order, aligned by column
\* name, a column the frame lacks filled with NaN.
RECURSIVE ConcatRows(_, _)
ConcatRows(dfs, cols) ==
    IF dfs = <<>> THEN <<>>
    ELSE LET df == Head(dfs)
             Align(row) ==
                 IF df.columns = cols THEN row
                 ELSE [c \in 1..Len(cols) |->
                          IF cols[c] \in Range(df.columns)
                          THEN row[CHOOSE j \in 1..Len(df.columns) : df.columns[j] = cols[c]]
                          ELSE NaN]
         IN  [r \in 1..Len(df.rows) |-> Align(df.rows[r])] \o ConcatRows(Tail(dfs), cols)

\* Frames that all have the same columns keep them as they are, repeated names
\* included; otherwise the columns are the union.
Concat(dfs) ==
    LET cols == IF \A i \in 1..Len(dfs) : dfs[i].columns = dfs[1].columns
                THEN dfs[1].columns
                ELSE UnionColumns(dfs, <<>>)
    IN  [columns |-> cols, rows |-> ConcatRows(dfs, cols)]

\* ------------------------------------------------- create_draft_mapping_excel
TopN == 10

\* One pass of the loop body for `header`: acc holds mapping_dict and visited.
ClusterStep(header, unique_headers, acc, cutoff) ==
    IF header \notin acc.visited
    THEN LET matches == GetCloseMatches(header, unique_headers, TopN, cutoff)
         IN  [mapping_dict |-> DictSet(acc.mapping_dict, header, matches),
              visited |-> acc.visited \cup Range(matches)]
    ELSE acc

\* The whole loop over unique_headers from position i on.
RECURSIVE ClusterLoop(_, _, _, _)
ClusterLoop(unique_headers, i, acc, cutoff) ==
    IF i > Len(unique_headers) THEN acc
    ELSE ClusterLoop(unique_headers, i + 1,
                     ClusterStep(unique_headers[i], unique_headers, acc, cutoff), cutoff)

\* rows = [{"Standard_Name": k, "Variations": ", ".join(v)} ...]
DraftRows(mapping) ==
    [i \in 1..Len(mapping) |->
        [Standard_Name |-> mapping[i].k, Variations |-> Join(mapping[i].v)]]

\* ------------------------------------------------------ convert_excel_to_json
\* Cell texts that read_excel takes for a missing value; str() of it is "nan".
NAStrings == {STR_empty, STR_nan}

\* str(row[...]) of a cell written by to_excel and read back by read_excel.
StrOfCell(text) == IF text \in NAStrings THEN STR_nan ELSE text

\* [v.strip().lower().replace(" ", "_") for v in str(cell).split(",") if v.strip()]
ParseVariations(text) ==
    LET parts == SeqFilterNonBlank(Split(text))
    IN  [i \in 1..Len(parts) |-> Normalize(parts[i])]

RECURSIVE ConvertRows(_, _)
ConvertRows(rows, acc) ==
    IF rows = <<>> THEN acc
    ELSE LET row == Head(rows)
             standard == Normalize(StrOfCell(row.Standard_Name))
             variations == ParseVariations(StrOfCell(row.Variations))
         IN  ConvertRows(Tail(rows), DictSet(acc, standard, variations))

ConvertExcelToJson(rows) == ConvertRows(rows, <<>>)

\* ------------------------------------------------------------ consolidate_files
\* {variation: standard for standard, variations in mapping_dict.items()
\*                      for variation in variations}
RECURSIVE ReverseMapFrom(_, _, _, _)
ReverseMapFrom(mapping, i, j, acc) ==
    IF i > Len(mapping) THEN acc
    ELSE IF j > Len(mapping[i].v) THEN ReverseMapFrom(mapping, i + 1, 1, acc)
    ELSE ReverseMapFrom(mapping, i, j + 1, DictSet(acc, mapping[i].v[j], mapping[i].k))

\* The same with setdefault: the first canonical name of a variant is kept.
RECURSIVE ReverseMapFirstFrom(_, _, _, _)
ReverseMapFirstFrom(mapping, i, j, acc) ==
    IF i > Len(mapping) THEN acc
    ELSE IF j > Len(mapping[i].v) THEN ReverseMapFirstFrom(mapping, i + 1, 1, acc)
    ELSE ReverseMapFirstFrom(mapping, i, j + 1,
                             IF DictHas(acc, mapping[i].v[j]) THEN acc
                             ELSE DictSet(acc, mapping[i].v[j], mapping[i].k))

ReverseMapFirstWins(mapping) == ReverseMapFirstFrom(mapping, 1, 1, <<>>)

ReverseMap(mapping) == ReverseMapFrom(mapping, 1, 1, <<>>)

\* reverse_map.get(normalized, col): the raw header kept when nothing maps.
RenameColumnRawDefault(col, reverse_map) ==
    LET normalized == Normalize(col)
    IN  DictGetOr(reverse_map, normalized, col)

\* reverse_map.get(normalized, normalized) for one column
RenameColumn(col, reverse_map) ==
    LET normalized == Normalize(col)
    IN  DictGetOr(reverse_map, normalized, normalized)

\* The body of the loop for one file whose stream stands at `eof` when it is
\* read: the error notices it emits and the frames it appends to dfs.
HandleFileAt(file, eof, reverse_map) ==
    IF ~(EndsWith(file.name, EXT_csv) \/ EndsWith(file.name, EXT_xlsx))
    THEN [errors |-> <<[level |-> "error", file |-> file.name, what |-> "unsupported"]>>,
          frames |-> <<>>, read |-> FALSE]
    ELSE IF file.size = 0
    THEN [errors |-> <<[level |-> "error", file |-> file.name, what |-> "empty"]>>,
          frames |-> <<>>, read |-> FALSE]
    ELSE LET r == ReadTable(file, eof)
         IN  IF ~r.ok /\ r.err = "EmptyDataError"
             THEN [errors |-> <<[level |-> "error", file |-> file.name, what |-> "no data"]>>,
                   frames |-> <<>>, read |-> TRUE]
             ELSE IF ~r.ok \/ ~file.str_header   \* col.strip() of a number: AttributeError
             THEN [errors |-> <<[level |-> "error", file |-> file.name, what |-> "reading"]>>,
                   frames |-> <<>>, read |-> TRUE]
             ELSE [errors |-> <<>>,
                   frames |-> <<[columns |-> [c \in 1..Len(file.columns) |->
                                                 RenameColumn(file.columns[c], reverse_map)],
                                 rows |-> file.rows]>>,
                   read |-> TRUE]

\* The loop body without file.seek(0): the file is read from where it stands.
HandleFileNoSeek(file, eof, reverse_map) == HandleFileAt(file, eof, reverse_map)

\* The loop body skipping a zero-length file without a notice.
HandleFileSilentEmpty(file, eof, reverse_map) ==
    IF EndsWith(file.name, EXT_csv) /\ file.size = 0
    THEN [errors |-> <<>>, frames |-> <<>>, read |-> FALSE]
    ELSE HandleFileAt(file, FALSE, reverse_map)

\* Lines 130-159, the loop body after progress.progress: file.seek(0) puts the
\* stream back at its start before the read.
HandleFile(file, eof, reverse_map) == HandleFileAt(file, FALSE, reverse_map)

\* ------------------------------------------------------------ the slider
\* st.slider("Fuzzy Matching Threshold", 0.6, 0.9, 0.8, 0.05), in hundredths.
SliderMin == 60
SliderMax == 90
SliderDefault == 80
SliderStep == 5

SliderValues == {v \in SliderMin..SliderMax : (v - SliderMin) % SliderStep = 0}

\* ------------------------------------------------------------ input pools
File(name, size, content, str_header, columns, rows) ==
    [name |-> name, size |-> size, content |-> content, str_header |-> str_header,
     columns |-> columns, rows |-> rows]

\* Column headers c_a .. c_l: twelve names, any two of them 2/3 similar.
WideColumns == [i \in 1..(TopN + 2) |-> <<99, 95, 96 + i>>]

\* Files uploaded to the running script.
ScriptFilePool ==
    { File(<<97>> \o EXT_csv, 20, "csv", TRUE, <<STR_P_ID, STR_Age>>, <<<<"1", "30">>>>),
      File(<<98>> \o EXT_csv, 20, "csv", TRUE, <<STR_p_id, STR_ages>>, <<<<"2", "45">>>>),
      \* u.XLSX: a workbook whose name ends in neither ".csv" nor ".xlsx"
      File(<<117, 46, 88, 76, 83, 88>>, 20, "xlsx", TRUE, <<STR_age>>, <<<<"7">>>>),
      File(<<101>> \o EXT_csv, 0, "empty", TRUE, <<>>, <<>>) }

\* Files handed to create_draft_mapping_excel.
DraftFilePool ==
    { File(<<97>> \o EXT_csv, 20, "csv", TRUE, <<STR_ab, STR_abc>>, <<>>),
      File(<<98>> \o EXT_xlsx, 20, "xlsx", TRUE, <<STR_bc, STR_age_sp>>, <<>>),
      File(<<99>> \o EXT_csv, 20, "csv", TRUE, <<STR_a_comma_b, STR_Age, STR_ages>>, <<>>),
      File(<<100>> \o EXT_csv, 20, "csv", TRUE, <<STR_blank>>, <<>>),
      File(<<119>> \o EXT_xlsx, 20, "xlsx", TRUE, WideColumns, <<>>),
      File(<<101>> \o EXT_csv, 0, "empty", TRUE, <<>>, <<>>) }

\* Files handed to consolidate_files.
ConsolFilePool ==
    { File(<<97>> \o EXT_csv, 20, "csv", TRUE, <<STR_P_ID, STR_Age>>,
           <<<<"a1", "a2">>, <<"a3", "a4">>>>),
      File(<<98>> \o EXT_xlsx, 20, "xlsx", TRUE, <<STR_pid, STR_ages, STR_Abc>>,
           <<<<"b1", "b2", "b3">>>>),
      File(<<100>> \o EXT_csv, 20, "csv", TRUE, <<STR_Age, STR_age>>, <<<<"d1", "d2">>>>),
      File(<<101>> \o EXT_csv, 0, "empty", TRUE, <<>>, <<>>),
      File(<<116, 46, 116, 120, 116>>, 20, "csv", TRUE, <<STR_age>>, <<<<"t1">>>>),
      File(<<110>> \o EXT_csv, 2, "blank", TRUE, <<>>, <<>>),
      File(<<120>> \o EXT_xlsx, 20, "csv", TRUE, <<STR_age>>, <<<<"x1">>>>),
      File(<<105>> \o EXT_xlsx, 20, "xlsx", FALSE, <<STR_age>>, <<<<"i1">>>>) }

Batches(pool, n) == UNION {[1..k -> pool] : k \in 0..n}

Entry(key, value) == [k |-> key, v |-> value]

\* Mappings handed to consolidate_files: none, one without and one with a
\* variant listed under two canonical names.
ConsolMappings ==
    { <<>>,
      <<Entry(STR_p_id, <<STR_p_id, STR_pid>>), Entry(STR_age, <<STR_age, STR_ages>>)>>,
      <<Entry(STR_age, <<STR_age, STR_ages>>), Entry(STR_ab, <<STR_ages, STR_abc>>),
        Entry(STR_bc, <<>>)>> }

\* Mapping sheets a user edits by hand and uploads.
EditedSheets ==
    { <<[Standard_Name |-> STR_Age, Variations |-> <<97, 103, 101, 44, 32, 65, 103, 101, 115>>],
        [Standard_Name |-> STR_P_ID, Variations |-> <<112, 95, 105, 100, 44>>]>> }

\* ------------------------------------------------------------------ state
Unbound == [bound |-> FALSE, value |-> 0]
Bound(v) == [bound |-> TRUE, value |-> v]
NoSheet == [present |-> FALSE, rows |-> <<>>]
Sheet(rows) == [present |-> TRUE, rows |-> rows]
NoneResult == [isNone |-> TRUE, consolidated_df |-> [columns |-> <<>>, rows |-> <<>>]]
TableResult(df) == [isNone |-> FALSE, consolidated_df |-> df]

VARIABLES
    pc,                   \* where the script (or the function under study) stands
    exc,                  \* the exception that ended the run, "none" while it runs
    uploaded_files,       \* the batch of the data uploader, in upload order
    at_eof,               \* per file: its stream has been read to the end
    slider,               \* the slider widget's value
    cutoff,               \* the script's name `cutoff`: unbound, or its value
    unique_headers,       \* create_draft_mapping_excel: list(set(normalized_headers))
    draft_mapping,        \* create_draft_mapping_excel: mapping_dict
    visited,              \* create_draft_mapping_excel: visited
    hidx,                 \* create_draft_mapping_excel: position of the loop
    draft_excel,          \* the draft mapping sheet offered for download
    edited_mapping_file,  \* the mapping uploader's file
    uploader_rendered,    \* the mapping uploader was drawn by the last run
    mapping_dict,         \* the Mapping read from the edited sheet
    reverse_map,          \* consolidate_files: reverse_map
    dfs,                  \* consolidate_files: dfs
    fidx,                 \* consolidate_files: position of the loop
    progress,             \* consolidate_files: the progress bar, <<done, total>>
    notices,              \* st.info / st.error / st.warning / st.success, in order
    result                \* what consolidate_files returned

vars == <<pc, exc, uploaded_files, at_eof, slider, cutoff, unique_headers, draft_mapping,
          visited, hidx, draft_excel, edited_mapping_file, uploader_rendered,
          mapping_dict, reverse_map, dfs, fidx, progress, notices, result>>

draftLocals == <<unique_headers, draft_mapping, visited, hidx>>
consolLocals == <<reverse_map, dfs, fidx, progress, result>>
widgets == <<uploaded_files, slider, edited_mapping_file>>

Notice(level, what) == [level |-> level, file |-> <<>>, what |-> what]

\* ------------------------------------------- create_draft_mapping_excel
\* all_headers.extend(df.columns.tolist()) over the files
RECURSIVE AllHeaders(_)
AllHeaders(files) ==
    IF files = <<>> THEN <<>> ELSE Head(files).columns \o AllHeaders(Tail(files))

\* Lines 82-94: read every file, collect and normalise the headers, reduce them
\* to a set and list it. A file that cannot be read, or a header that is not a
\* string, raises out of the function.
DraftReadFiles ==
    /\ pc = "draft_read"
    /\ LET n == Len(uploaded_files)
           reads == [i \in 1..n |-> ReadTable(uploaded_files[i], at_eof[i])]
           failing == {i \in 1..n : ~reads[i].ok}
           first == IF failing = {} THEN n + 1
                    ELSE CHOOSE i \in failing : \A j \in failing : i <= j
           all_headers == AllHeaders(uploaded_files)
       IN  /\ at_eof' = [i \in 1..n |-> at_eof[i] \/ i <= first]
           /\ IF failing # {}
              THEN /\ pc' = "crashed"
                   /\ exc' = reads[first].err
                   /\ UNCHANGED draftLocals
              ELSE IF \E i \in 1..n : ~uploaded_files[i].str_header
              THEN /\ pc' = "crashed"
                   /\ exc' = "AttributeError"
                   /\ UNCHANGED draftLocals
              ELSE /\ unique_headers' \in
                          SetOrders({Normalize(all_headers[i]) : i \in 1..Len(all_headers)})
                   /\ draft_mapping' = <<>>
                   /\ visited' = {}
                   /\ hidx' = 1
                   /\ pc' = "draft_loop"
                   /\ exc' = exc
    /\ UNCHANGED <<widgets, cutoff, draft_excel, uploader_rendered, mapping_dict,
                   consolLocals, notices>>

\* Lines 95-99: one iteration of the clustering loop.
DraftLoopStep ==
    /\ pc = "draft_loop"
    /\ hidx <= Len(unique_headers)
    /\ LET acc == ClusterStep(unique_headers[hidx], unique_headers,
                              [mapping_dict |-> draft_mapping, visited |-> visited],
                              cutoff.value)
       IN  /\ draft_mapping' = acc.mapping_dict
           /\ visited' = acc.visited
    /\ hidx' = hidx + 1
    /\ UNCHANGED <<pc, exc, widgets, at_eof, cutoff, unique_headers, draft_excel,
                   uploader_rendered, mapping_dict, consolLocals, notices>>

\* Lines 101-107: the loop is over; write the sheet and return it.
DraftExport ==
    /\ pc = "draft_loop"
    /\ hidx > Len(unique_headers)
    /\ draft_excel' = Sheet(DraftRows(draft_mapping))
    /\ pc' = "draft_returned"
    /\ UNCHANGED <<exc, widgets, at_eof, cutoff, draftLocals, uploader_rendered,
                   mapping_dict, consolLocals, notices>>

\* The draft sheet, unmodified, is uploaded again and read by
\* convert_excel_to_json (lines 109-116).
ReimportDraft ==
    /\ pc = "draft_returned"
    /\ edited_mapping_file' = draft_excel
    /\ mapping_dict' = ConvertExcelToJson(draft_excel.rows)
    /\ pc' = "reimported"
    /\ UNCHANGED <<exc, uploaded_files, slider, at_eof, cutoff, draftLocals, draft_excel,
                   uploader_rendered, consolLocals, notices>>

\* ----------------------------------------------------- consolidate_files
\* Lines 120-125: build reverse_map, announce the start, set up the progress bar.
ConsolidateEnter ==
    /\ pc = "consolidate_call"
    /\ reverse_map' = ReverseMap(mapping_dict)
    /\ dfs' = <<>>
    /\ notices' = Append(notices, Notice("info", "starting"))
    /\ progress' = <<0, Len(uploaded_files)>>
    /\ fidx' = 1
    /\ pc' = "consolidate_loop"
    /\ UNCHANGED <<exc, widgets, at_eof, cutoff, draftLocals, draft_excel,
                   uploader_rendered, mapping_dict, result>>

\* Lines 127-159: one file of the loop.
ConsolidateFile ==
    /\ pc = "consolidate_loop"
    /\ fidx <= Len(uploaded_files)
    /\ LET h == HandleFile(uploaded_files[fidx], at_eof[fidx], reverse_map)
       IN  /\ notices' = notices \o h.errors
           /\ dfs' = dfs \o h.frames
           /\ at_eof' = [at_eof EXCEPT ![fidx] = IF h.read THEN TRUE ELSE @]
    /\ progress' = <<fidx, Len(uploaded_files)>>
    /\ fidx' = fidx + 1
    /\ UNCHANGED <<pc, exc, widgets, cutoff, draftLocals, draft_excel, uploader_rendered,
                   mapping_dict, reverse_map, result>>

\* Lines 161-177: nothing to consolidate, or the concatenation and its exports.
ConsolidateFinish ==
    /\ pc = "consolidate_loop"
    /\ fidx > Len(uploaded_files)
    /\ IF dfs = <<>>
       THEN /\ notices' = Append(notices, Notice("warning", "no valid files"))
            /\ result' = NoneResult
            /\ pc' = "consolidate_returned"
            /\ exc' = exc
       ELSE IF ConcatRaises(dfs)
       THEN /\ pc' = "crashed"
            /\ exc' = "InvalidIndexError"
            /\ UNCHANGED <<notices, result>>
       ELSE /\ notices' = Append(notices, Notice("success", "consolidated"))
            /\ result' = TableResult(Concat(dfs))
            /\ pc' = "consolidate_returned"
            /\ exc' = exc
    /\ UNCHANGED <<widgets, at_eof, cutoff, draftLocals, draft_excel, uploader_rendered,
                   mapping_dict, reverse_map, dfs, fidx, progress>>

\* ------------------------------------------------------------ the script
\* A run of the script starts with every name of the last run gone; Streamlit
\* hands each run fresh file objects, positioned at the start.
StartRun ==
    /\ pc' = "step2"
    /\ exc' = "none"
    /\ cutoff' = Unbound
    /\ at_eof' = [i \in 1..Len(uploaded_files') |-> FALSE]
    /\ unique_headers' = <<>>
    /\ draft_mapping' = <<>>
    /\ visited' = {}
    /\ hidx' = 1
    /\ uploader_rendered' = FALSE
    /\ mapping_dict' = <<>>
    /\ reverse_map' = <<>>
    /\ dfs' = <<>>
    /\ fidx' = 1
    /\ progress' = <<0, 0>>
    /\ notices' = <<>>
    /\ result' = NoneResult

RunOver == pc \in {"done", "crashed"}

\* The user drops a batch of files on the data uploader (line 76). One upload
\* per session is explored.
UserUploadsFiles ==
    /\ RunOver
    /\ uploaded_files = <<>>
    /\ uploaded_files' \in Batches(ScriptFilePool, MaxScriptFiles) \ {<<>>}
    /\ UNCHANGED <<slider, edited_mapping_file, draft_excel>>
    /\ StartRun

\* The user moves the slider, which the last run drew (line 187). Moves are
\* explored up to the upload of a mapping.
UserMovesSlider ==
    /\ RunOver
    /\ uploaded_files # <<>>
    /\ ~edited_mapping_file.present
    /\ slider' \in SliderValues \ {slider}
    /\ UNCHANGED <<uploaded_files, edited_mapping_file, draft_excel>>
    /\ StartRun

\* The user uploads a mapping sheet to the uploader the last run drew (line
\* 199): the draft as downloaded, or a sheet edited by hand.
UserUploadsMapping ==
    /\ RunOver
    /\ uploader_rendered
    /\ ~edited_mapping_file.present
    /\ \E rows \in {draft_excel.rows} \cup EditedSheets :
           edited_mapping_file' = Sheet(rows)
    /\ UNCHANGED <<uploaded_files, slider, draft_excel>>
    /\ StartRun

\* Lines 183-187: the slider is drawn, and `cutoff` bound, only with files.
Step2Slider ==
    /\ pc = "step2"
    /\ cutoff' = IF uploaded_files # <<>> THEN Bound(slider) ELSE cutoff
    /\ pc' = "step2_call"
    /\ UNCHANGED <<exc, widgets, at_eof, draftLocals, draft_excel, uploader_rendered,
                   mapping_dict, consolLocals, notices>>

\* The call made whether or not `cutoff` is bound.
Step2CallUnchecked ==
    /\ pc = "step2_call"
    /\ pc' = "draft_read"
    /\ exc' = exc
    /\ UNCHANGED <<widgets, at_eof, cutoff, draftLocals, draft_excel, uploader_rendered,
                   mapping_dict, consolLocals, notices>>

\* Lines 190-191, outside the `if`: the arguments of the call are evaluated
\* first, and an unbound `cutoff` raises NameError before the call is made.
Step2Call ==
    /\ pc = "step2_call"
    /\ IF cutoff.bound
       THEN pc' = "draft_read" /\ exc' = exc
       ELSE pc' = "crashed" /\ exc' = "NameError"
    /\ UNCHANGED <<widgets, at_eof, cutoff, draftLocals, draft_excel, uploader_rendered,
                   mapping_dict, consolLocals, notices>>

\* Lines 193-207: the download button, the mapping uploader, and the Mapping
\* read from the sheet when there is one.
Step3 ==
    /\ pc = "draft_returned"
    /\ uploader_rendered' = TRUE
    /\ mapping_dict' = IF edited_mapping_file.present
                       THEN ConvertExcelToJson(edited_mapping_file.rows)
                       ELSE mapping_dict
    /\ pc' = "step4"
    /\ UNCHANGED <<exc, widgets, at_eof, cutoff, draftLocals, draft_excel, consolLocals,
                   notices>>

\* Lines 212-216: with a mapping and files, call consolidate_files.
Step4 ==
    /\ pc = "step4"
    /\ pc' = IF edited_mapping_file.present /\ uploaded_files # <<>>
             THEN "consolidate_call" ELSE "done"
    /\ UNCHANGED <<exc, widgets, at_eof, cutoff, draftLocals, draft_excel,
                   uploader_rendered, mapping_dict, consolLocals, notices>>

\* Lines 219-227: the preview reads excel_output.getvalue(); None has no
\* getvalue, so a None result raises AttributeError.
Step4Preview ==
    /\ pc = "consolidate_returned"
    /\ IF result.isNone
       THEN pc' = "crashed" /\ exc' = "AttributeError"
       ELSE pc' = "done" /\ exc' = exc
    /\ UNCHANGED <<widgets, at_eof, cutoff, draftLocals, draft_excel, uploader_rendered,
                   mapping_dict, consolLocals, notices>>

\* ------------------------------------------------------- specifications
Idle ==
    /\ exc = "none"
    /\ cutoff = Unbound
    /\ unique_headers = <<>>
    /\ draft_mapping = <<>>
    /\ visited = {}
    /\ hidx = 1
    /\ draft_excel = NoSheet
    /\ edited_mapping_file = NoSheet
    /\ uploader_rendered = FALSE
    /\ mapping_dict = <<>>
    /\ reverse_map = <<>>
    /\ dfs = <<>>
    /\ fidx = 1
    /\ progress = <<0, 0>>
    /\ notices = <<>>
    /\ result = NoneResult

\* The page is opened: no file uploaded yet, the slider at its default.
Init ==
    /\ pc = "step2"
    /\ uploaded_files = <<>>
    /\ at_eof = <<>>
    /\ slider = SliderDefault
    /\ Idle

Next ==
    \/ UserUploadsFiles
    \/ UserMovesSlider
    \/ UserUploadsMapping
    \/ Step2Slider
    \/ Step2Call
    \/ DraftReadFiles
    \/ DraftLoopStep
    \/ DraftExport
    \/ Step3
    \/ Step4
    \/ ConsolidateEnter
    \/ ConsolidateFile
    \/ ConsolidateFinish
    \/ Step4Preview

Spec == Init /\ [][Next]_vars

\* create_draft_mapping_excel(files, cutoff) on its own, for any batch and any
\* slider value, followed by the re-import of its sheet.
InitDraft ==
    /\ pc = "draft_read"
    /\ uploaded_files \in Batches(DraftFilePool, MaxDraftFiles)
    /\ at_eof = [i \in 1..Len(uploaded_files) |-> FALSE]
    /\ slider \in SliderValues
    /\ exc = "none"
    /\ cutoff = Bound(slider)
    /\ unique_headers = <<>>
    /\ draft_mapping = <<>>
    /\ visited = {}
    /\ hidx = 1
    /\ draft_excel = NoSheet
    /\ edited_mapping_file = NoSheet
    /\ uploader_rendered = FALSE
    /\ mapping_dict = <<>>
    /\ reverse_map = <<>>
    /\ dfs = <<>>
    /\ fidx = 1
    /\ progress = <<0, 0>>
    /\ notices = <<>>
    /\ result = NoneResult

NextDraft ==
    \/ DraftReadFiles
    \/ DraftLoopStep
    \/ DraftExport
    \/ ReimportDraft

SpecDraft == InitDraft /\ [][NextDraft]_vars

\* consolidate_files(files, mapping_dict) on its own, for any batch, any of the
\* mappings, and streams left at the start or at the end by earlier reads.
InitConsolidate ==
    /\ pc = "consolidate_call"
    /\ uploaded_files \in Batches(ConsolFilePool, MaxConsolFiles)
    /\ at_eof \in {[i \in 1..Len(uploaded_files) |-> b] : b \in BOOLEAN}
    /\ slider = SliderDefault
    /\ mapping_dict \in ConsolMappings
    /\ exc = "none"
    /\ cutoff = Bound(slider)
    /\ unique_headers = <<>>
    /\ draft_mapping = <<>>
    /\ visited = {}
    /\ hidx = 1
    /\ draft_excel = NoSheet
    /\ edited_mapping_file = NoSheet
    /\ uploader_rendered = FALSE
    /\ reverse_map = <<>>
    /\ dfs = <<>>
    /\ fidx = 1
    /\ progress = <<0, 0>>
    /\ notices = <<>>
    /\ result = NoneResult

NextConsolidate ==
    \/ ConsolidateEnter
    \/ ConsolidateFile
    \/ ConsolidateFinish

SpecConsolidate == InitConsolidate /\ [][NextConsolidate]_vars

\* ---------------------------------------------------------------- claims
\* The clustering loop of create_draft_mapping_excel has run to its end.
LoopEnded ==
    \/ pc = "draft_loop" /\ hidx > Len(unique_headers)
    \/ pc \in {"draft_returned", "reimported"}

Variants(mapping, i) == Range(mapping[i].v)

\* C3: the variant lists of the draft Mapping partition: no header appears in
\* the variant lists of two different canonical names.
C3_VariantListsPartition ==
    \A i, j \in 1..Len(draft_mapping) :
        i # j => Variants(draft_mapping, i) \cap Variants(draft_mapping, j) = {}

\* C6: re-importing the unmodified export of a draft Mapping yields the same
\* canonical names, each with the same ordered variant list.
C6_ExportImportRoundTrip ==
    pc = "reimported" =>
        /\ DictKeys(mapping_dict) = DictKeys(draft_mapping)
        /\ \A key \in DictKeys(draft_mapping) :
               DictGet(mapping_dict, key) = DictGet(draft_mapping, key)

\* The draft Mapping the same universe, in the same order, gives at cutoff c.
DraftAt(c) ==
    ClusterLoop(unique_headers, 1, [mapping_dict |-> <<>>, visited |-> {}], c).mapping_dict

\* C7: for the same universe in the same enumeration order, a canonical name
\* present in the Mapping at a lower cutoff c1 and at the cutoff used has, at the
\* higher cutoff, a variant list no longer than at c1.
C7_CutoffMonotone ==
    pc = "draft_returned" =>
        \A c1 \in SliderValues :
            c1 <= cutoff.value =>
                LET other == DraftAt(c1)
                IN  \A key \in DictKeys(draft_mapping) \cap DictKeys(other) :
                        Len(DictGet(draft_mapping, key)) <= Len(DictGet(other, key))

\* C7 witness: some canonical name is present at both cutoffs and its list is
\* strictly shorter at the higher one.
C7_Witness ==
    /\ pc = "draft_returned"
    /\ \E c1 \in SliderValues :
           /\ c1 < cutoff.value
           /\ LET other == DraftAt(c1)
              IN  \E key \in DictKeys(draft_mapping) \cap DictKeys(other) :
                      Len(DictGet(draft_mapping, key)) < Len(DictGet(other, key))

\* C10: when the loop ends every header of the universe is in visited and in
\* the variant list of some cluster, every canonical name is in its own variant
\* list, and every variant list has 1 to 10 entries, all from the universe.
C10_Coverage ==
    LoopEnded =>
        /\ Range(unique_headers) \subseteq visited
        /\ \A h \in Range(unique_headers) :
               \E i \in 1..Len(draft_mapping) : h \in Variants(draft_mapping, i)
        /\ \A i \in 1..Len(draft_mapping) :
               /\ draft_mapping[i].k \in Variants(draft_mapping, i)
               /\ Len(draft_mapping[i].v) >= 1
               /\ Len(draft_mapping[i].v) <= TopN
               /\ Variants(draft_mapping, i) \subseteq Range(unique_headers)

\* C10 witness: a universe with more than ten matches for one header, whose
\* cluster was cut to the ten best.
C10_Witness ==
    /\ LoopEnded
    /\ Cardinality(Range(unique_headers)) > TopN
    /\ \E i \in 1..Len(draft_mapping) : Len(draft_mapping[i].v) = TopN

\* --------------------------------------------- claims on consolidate_files
\* The spec's taxonomy of a failing file: unsupported extension, zero length,
\* or content that does not parse as the table its extension announces.
Supported(file) == EndsWith(file.name, EXT_csv) \/ EndsWith(file.name, EXT_xlsx)

Parses(file) ==
    /\ \/ EndsWith(file.name, EXT_csv) /\ file.content = "csv"
       \/ EndsWith(file.name, EXT_xlsx) /\ file.content = "xlsx"
    /\ file.str_header

FileFails(file) == ~Supported(file) \/ file.size = 0 \/ ~Parses(file)

\* The files among the first n of the batch that fail, or do not, in order.
RECURSIVE FilesWhere(_, _, _)
FilesWhere(files, n, failing) ==
    IF n = 0 THEN <<>>
    ELSE FilesWhere(files, n - 1, failing)
         \o (IF FileFails(files[n]) = failing THEN <<files[n]>> ELSE <<>>)

Handled == IF pc = "consolidate_call" THEN 0 ELSE fidx - 1

RECURSIVE RowsOf(_)
RowsOf(files) == IF files = <<>> THEN <<>> ELSE Head(files).rows \o RowsOf(Tail(files))

RECURSIVE ErrorFiles(_)
ErrorFiles(ns) ==
    IF ns = <<>> THEN <<>>
    ELSE (IF Head(ns).level = "error" THEN <<Head(ns).file>> ELSE <<>>) \o ErrorFiles(Tail(ns))

InConsolidate == pc \in {"consolidate_loop", "consolidate_returned"}

C4_OneErrorPerFailedFile ==
    InConsolidate =>
        /\ ErrorFiles(notices) =
               [i \in 1..Len(FilesWhere(uploaded_files, Handled, TRUE)) |->
                   FilesWhere(uploaded_files, Handled, TRUE)[i].name]
        /\ Len(dfs) = Len(FilesWhere(uploaded_files, Handled, FALSE))

\* C4 witness: in the middle of a batch of three, one file skipped with its
\* notice, one appended, one still to come.
C4_Witness ==
    /\ pc = "consolidate_loop"
    /\ Len(uploaded_files) = 3
    /\ fidx = 3
    /\ FileFails(uploaded_files[1])
    /\ uploaded_files[1].size = 0
    /\ ~FileFails(uploaded_files[2])
    /\ Len(ErrorFiles(notices)) = 1
    /\ Len(dfs) = 1

\* C5: every column of every parsed file is in dfs under the canonical name its
\* normalized header maps to, or under its normalized header when reverse_map
\* has no such key; no column is dropped, and the returned table has them all.
C5_RenameOrPassThrough ==
    InConsolidate =>
        LET parsed == FilesWhere(uploaded_files, Handled, FALSE)
        IN  /\ Len(dfs) = Len(parsed)
            /\ \A k \in 1..Len(parsed) :
                   /\ Len(dfs[k].columns) = Len(parsed[k].columns)
                   /\ \A j \in 1..Len(parsed[k].columns) :
                          LET normalized == Normalize(parsed[k].columns[j])
                          IN  /\ dfs[k].columns[j] =
                                     IF DictHas(reverse_map, normalized)
                                     THEN DictGet(reverse_map, normalized)
                                     ELSE normalized
                              /\ (pc = "consolidate_returned" /\ ~result.isNone)
                                     => dfs[k].columns[j] \in Range(result.consolidated_df.columns)

\* C5 witness: a returned table built from a file with one header that is
\* mapped to another name and one that is not mapped and not yet normalized.
C5_Witness ==
    /\ pc = "consolidate_returned"
    /\ ~result.isNone
    /\ \E i \in 1..Len(uploaded_files) :
           /\ ~FileFails(uploaded_files[i])
           /\ \E j, m \in 1..Len(uploaded_files[i].columns) :
                  LET a == uploaded_files[i].columns[j]
                      b == uploaded_files[i].columns[m]
                  IN  /\ DictHas(reverse_map, Normalize(a))
                      /\ DictGet(reverse_map, Normalize(a)) # Normalize(a)
                      /\ ~DictHas(reverse_map, Normalize(b))
                      /\ Normalize(b) # b

\* C8: reverse_map has exactly the variants of the Mapping as keys, and maps
\* each to the canonical name of the last entry that lists it; building it
\* raises nothing.
C8_LastWriteWins ==
    InConsolidate =>
        /\ DictKeys(reverse_map) = UNION {Variants(mapping_dict, i) : i \in 1..Len(mapping_dict)}
        /\ \A i \in 1..Len(mapping_dict) :
               \A v \in Variants(mapping_dict, i) :
                   (\A m \in (i + 1)..Len(mapping_dict) : v \notin Variants(mapping_dict, m))
                       => DictGet(reverse_map, v) = mapping_dict[i].k
        /\ exc = "none"

\* C8 witness: a Mapping listing one variant under two canonical names.
C8_Witness ==
    /\ pc = "consolidate_loop"
    /\ \E i, m \in 1..Len(mapping_dict) :
           /\ i < m
           /\ mapping_dict[i].k # mapping_dict[m].k
           /\ Variants(mapping_dict, i) \cap Variants(mapping_dict, m) # {}

\* -------------------------------------------------- claims on the script
\* create_draft_mapping_excel has been called and has not yet handed its sheet
\* to the download button.
InBuilder == pc \in {"draft_read", "draft_loop", "draft_returned"}

\* C2: when every uploaded file fails in consolidate_files, the run does not
\* end in an exception, the Step 4 code after the call included.
C2_AllFailedIsBenign ==
    (/\ notices # <<>>
     /\ \A i \in 1..Len(uploaded_files) : FileFails(uploaded_files[i]))
    => exc = "none"

\* C9: whenever the builder is running, `cutoff` was bound by the slider to a
\* value in [0.6, 0.9], and files are uploaded.
C9_BuilderHasCutoff ==
    InBuilder =>
        /\ cutoff.bound
        /\ cutoff.value >= SliderMin
        /\ cutoff.value <= SliderMax
        /\ cutoff.value = slider
        /\ uploaded_files # <<>>

\* C9 witness: the builder at work in a run whose slider the user has moved.
C9_Witness ==
    /\ pc = "draft_loop"
    /\ cutoff.bound
    /\ cutoff.value # SliderDefault
    /\ draft_mapping # <<>>
====
